---------------------------- MODULE Spec2Model ----------------------------
(***************************************************************************)
(* CUR selection of samples / features (bindings/rascal/utils/cur.py).     *)
(*                                                                         *)
(* Indices are numpy's, 0-based.  A sequence of the model holds at         *)
(* position p (1-based) what the numpy array holds at index p - 1.         *)
(*                                                                         *)
(* scipy's svds is a library routine: a matrix is represented by its       *)
(* shape and by its singular vectors in order of decreasing singular       *)
(* value, each vector concentrated on one row (U) or one column (VT), so   *)
(* that the squared entries are 0 or 1 and svds(X, k) keeps the first k.   *)
(* Leverage weights are exact fractions with denominator Nsel; uniform     *)
(* variates are fractions with denominator RandRes.                        *)
(*                                                                         *)
(* np.argsort is called with numpy's default kind, which is not stable:    *)
(* the order it gives equal keys depends on the build.  It is the same on  *)
(* every call of one process, so it is a value fixed in the initial state  *)
(* (sortTie), chosen among the index order and its reverse.                *)
(*                                                                         *)
(* SpecSelect      do_CUR called directly, one call after the other        *)
(* Spec            a CURFilter fitted, transformed, and restored           *)
(* SpecConcurrent  stochastic do_CUR calls whose steps interleave          *)
(***************************************************************************)
EXTENDS Integers, Sequences, FiniteSets, TLC

VARIABLES
    sortTie,    \* order np.argsort (kind='quicksort', not stable) gives equal keys
    rng,        \* the process-wide np.random generator: [seed, pos]
    stdout,     \* kinds of lines written by print so far
    caller,     \* a direct caller of do_CUR: its matrix X and its act_on
    managers,   \* the structure collection handed to fit and transform
    ref,        \* a do_CUR call picked among those made: its arguments and result
    again,      \* the latest later call with ref's arguments: its result
    flt,        \* the CURFilter x: init parameters and attributes
    restored,   \* a second CURFilter built from x's init parameters
    synced,     \* restored got _set_data(x._get_data()) and x was not fitted since
    out,        \* the latest fit / transform call: who, arguments, result
    thr         \* concurrent callers of do_CUR: [pc, X, Nsel, seed, u, sel]

vars == <<sortTie, rng, stdout, caller, managers, ref, again, flt, restored, synced, out, thr>>

---------------------------------------------------------------------------
(* Bounds *)

MaxRows == 3        \* rows of a feature matrix (of one species' slice of it)
MaxCols == 3        \* columns of a feature matrix
RandRes == 4        \* uniform variates are r / RandRes, r in 0 .. RandRes - 1
MaxPos == 1         \* unrelated draws stop once the stream position reaches this

DefaultSeed == 10

\* an attribute or result is None, or holds a value v: Some(v)
None == << >>
Some(v) == <<v>>
Val(o) == o[1]

Seeds == {DefaultSeed, DefaultSeed + 1}
TieOrders == {"ascending", "descending"}
Modes == {"sample", "sample per species", "feature"}

Min(a, b) == IF a < b THEN a ELSE b
Range(s) == {s[p] : p \in DOMAIN s}

---------------------------------------------------------------------------
(* Matrices *)

IsSampleAxis(act_on) == act_on \in {"sample", "sample per species"}

Rank(nr, nc) == IF Min(nr, nc) > 1 THEN Min(nr, nc) - 1 ELSE 0
Concentrated(n, k) == [1..k -> 0..(n - 1)]
Canonical(k) == [c \in 1..k |-> 0]

\* the matrices of a shape, told apart by the singular vectors act_on reads
MatricesOfShape(nr, nc, act_on) ==
    IF IsSampleAxis(act_on)
    THEN {[nrows |-> nr, ncols |-> nc, U |-> u, VT |-> Canonical(Rank(nr, nc))] :
            u \in Concentrated(nr, Rank(nr, nc))}
    ELSE {[nrows |-> nr, ncols |-> nc, U |-> Canonical(Rank(nr, nc)), VT |-> v] :
            v \in Concentrated(nc, Rank(nr, nc))}

Matrices(act_on) ==
    UNION {MatricesOfShape(nr, nc, act_on) : nr \in 2..MaxRows, nc \in 2..MaxCols}

MaxBudget == Min(MaxRows, MaxCols)

---------------------------------------------------------------------------
(* numpy / scipy primitives *)

\* np.random.seed(seed): the generator restarts its stream
RandomSeed(seed) == [seed |-> seed, pos |-> 0]

\* the value at position pos of the stream of seed, numerator over RandRes
\* (a mixing function in the place of the Mersenne Twister)
Stream(seed, pos) == ((seed + 1) * (pos + 2) * (pos + 5) + seed * pos * pos + 3 * pos) % RandRes

\* np.random.rand(n): n variates taken from the generator g
RandomRand(g, n) == [p \in 1..n |-> Stream(g.seed, g.pos + p - 1)]
Advance(g, n) == [seed |-> g.seed, pos |-> g.pos + n]

\* whether np.argsort puts index i before index j
SortsBefore(keys, tie, i, j) ==
    \/ keys[i + 1] < keys[j + 1]
    \/ /\ keys[i + 1] = keys[j + 1]
       /\ IF tie = "ascending" THEN i < j ELSE i > j

\* np.argsort(keys): the indices in order of increasing key
ArgSort(keys, tie) ==
    LET n == Len(keys)
        place(i) == Cardinality({j \in 0..(n - 1) : SortsBefore(keys, tie, j, i)})
    IN  [p \in 1..n |-> CHOOSE i \in 0..(n - 1) : place(i) = p - 1]

\* np.sort(a)
Sort(a) == LET o == ArgSort(a, "ascending") IN [p \in 1..Len(a) |-> a[o[p] + 1]]

PrefixOneMore(a, n) == SubSeq(a, 1, Min(n + 1, Len(a)))

\* a[:n]
Prefix(a, n) == SubSeq(a, 1, Min(n, Len(a)))

\* svds(X, k) raises ValueError unless 1 <= k < min(X.shape)
SvdsAccepts(M, k) == 1 <= k /\ k < Min(M.nrows, M.ncols)

\* np.mean(np.square(U), axis=1) / np.mean(np.square(VT), axis=0),
\* numerators over Nsel
Weights(M, Nsel, act_on) ==
    IF IsSampleAxis(act_on)
    THEN [p \in 1..M.nrows |-> Cardinality({c \in 1..Nsel : M.U[c] = p - 1})]
    ELSE [p \in 1..M.ncols |-> Cardinality({c \in 1..Nsel : M.VT[c] = p - 1})]

\* rand - weights and -weights, numerators over RandRes * Nsel
StochasticKeys(u, w, Nsel) == [p \in 1..Len(w) |-> u[p] * Nsel - w[p] * RandRes]
DeterministicKeys(w) == [p \in 1..Len(w) |-> 0 - w[p] * RandRes]

---------------------------------------------------------------------------
(* do_CUR *)

\* np.argsort(u - weights)[:Nsel]
SortDrawn(u, w, Nsel, tie) == Prefix(ArgSort(StochasticKeys(u, w, Nsel), tie), Nsel)

StochasticSelectUnseeded(w, Nsel, seed, g, tie) ==
    [sel |-> SortDrawn(RandomRand(g, Len(w)), w, Nsel, tie), rng |-> Advance(g, Len(w))]

\* the stochastic branch, run without interruption: seed, draw, sort, truncate
StochasticSelect(w, Nsel, seed, g, tie) ==
    LET s == RandomSeed(seed)
    IN  [sel |-> SortDrawn(RandomRand(s, Len(w)), w, Nsel, tie), rng |-> Advance(s, Len(w))]

DeterministicSelectNoMinus(w, Nsel, tie) == Prefix(ArgSort(w, tie), Nsel)

\* the deterministic branch
DeterministicSelect(w, Nsel, tie) == Prefix(ArgSort(DeterministicKeys(w), tie), Nsel)

\* do_CUR(X, Nsel, act_on, is_deterministic, seed) with verbose left True,
\* called when the generator is g
do_CUR(M, Nsel, act_on, is_deterministic, seed, g, tie) ==
    IF ~SvdsAccepts(M, Nsel)
    THEN [err |-> "ValueError", sel |-> None, rng |-> g, printed |-> {}]
    ELSE LET w == Weights(M, Nsel, act_on)
         IN  IF is_deterministic
             THEN [err |-> "ok", sel |-> DeterministicSelect(w, Nsel, tie),
                   rng |-> g, printed |-> {"rmse"}]
             ELSE LET r == StochasticSelect(w, Nsel, seed, g, tie)
                  IN  [err |-> "ok", sel |-> r.sel, rng |-> r.rng, printed |-> {"rmse"}]

---------------------------------------------------------------------------
(* Direct callers of do_CUR *)

FilterIdle ==
    /\ managers = None /\ flt = None /\ restored = None /\ synced = FALSE /\ out = None
    /\ thr = None

InitSelect ==
    /\ sortTie \in TieOrders
    /\ rng = RandomSeed(0)
    /\ stdout = {}
    /\ \E act_on \in {"sample", "feature"} : \E M \in Matrices(act_on) :
            caller = [X |-> M, act_on |-> act_on]
    /\ ref = None
    /\ again = None
    /\ FilterIdle

Args(Nsel, det, seed) == [Nsel |-> Nsel, is_deterministic |-> det, seed |-> seed]

\* the caller runs do_CUR; the call is kept as ref, or, made with ref's
\* arguments, as again, or is not kept (a deterministic call is made with
\* the default seed, which it does not read)
Select(Nsel, det, seed, keep) ==
    LET r == do_CUR(caller.X, Nsel, caller.act_on, det, seed, rng, sortTie)
        a == Args(Nsel, det, seed)
    IN  /\ det => seed = DefaultSeed
        /\ rng' = r.rng
        /\ stdout' = stdout \cup r.printed
        /\ IF keep /\ ref = None
           THEN /\ ref' = Some([args |-> a, err |-> r.err, sel |-> r.sel])
                /\ again' = again
           ELSE IF keep /\ ref # None /\ Val(ref).args = a
           THEN /\ again' = Some([err |-> r.err, sel |-> r.sel,
                                   fresh |-> rng = RandomSeed(seed)])
                /\ ref' = ref
           ELSE UNCHANGED <<ref, again>>
        /\ UNCHANGED <<sortTie, caller, managers, flt, restored, synced, out, thr>>

\* np.random.rand() somewhere else in the process
Draw ==
    /\ rng.pos < MaxPos
    /\ rng' = Advance(rng, 1)
    /\ UNCHANGED <<sortTie, stdout, caller, managers, ref, again, flt, restored, synced, out, thr>>

NextSelect ==
    \/ \E Nsel \in 1..MaxBudget, det \in BOOLEAN, seed \in Seeds, keep \in BOOLEAN :
            Select(Nsel, det, seed, keep)
    \/ Draw

SpecSelect == InitSelect /\ [][NextSelect]_vars

---------------------------------------------------------------------------
(* The collaborators of CURFilter *)

Species == {1, 6}

\* list(d.keys()), the keys having been inserted in ascending order
keys(d) ==
    LET S == DOMAIN d
    IN  [p \in 1..Cardinality(S) |-> CHOOSE s \in S : Cardinality({t \in S : t < s}) = p - 1]

\* the singular vectors of the matrices handed to fit: all on the first
\* row / column, or all on the last
FitVectors(n, k) == {Canonical(k), [c \in 1..k |-> IF n > 0 THEN n - 1 ELSE 0]}

FitMatrices(act_on) ==
    UNION {{M \in MatricesOfShape(nr, nc, act_on) :
                /\ M.U \in FitVectors(nr, Rank(nr, nc))
                /\ M.VT \in FitVectors(nc, Rank(nr, nc))} :
            nr \in 2..MaxRows, nc \in 2..MaxCols}

\* one species' rows of the feature matrix, X[indices_by_sp[sp]]
SliceMatrices(nr) ==
    {[nrows |-> nr, ncols |-> MaxCols, U |-> u, VT |-> Canonical(Rank(nr, MaxCols))] :
        u \in FitVectors(nr, Rank(nr, MaxCols))}

\* the structure collections: their feature matrix and, per centre species,
\* the rows of it that belong to the species (a species may have none)
SpeciesCounts ==
    {c \in [Species -> 0..MaxRows] :
        \/ c[1] + c[6] \in {MaxRows + 1, MaxRows + 2}
        \/ c[1] + c[6] = MaxRows /\ 0 \in {c[1], c[6]}}

ManagersFor(act_on) ==
    IF act_on = "sample per species"
    THEN UNION {{[X |-> [nrows |-> c[1] + c[6], ncols |-> MaxCols,
                         U |-> Canonical(Rank(c[1] + c[6], MaxCols)),
                         VT |-> Canonical(Rank(c[1] + c[6], MaxCols))],
                  by_sp |-> [sp \in Species |-> IF sp = 1 THEN a ELSE b]] :
                    a \in SliceMatrices(c[1]), b \in SliceMatrices(c[6])} :
                c \in SpeciesCounts}
    ELSE {[X |-> M, by_sp |-> << >>] : M \in FitMatrices(act_on)}

\* managers.get_features(representation)
get_features(m) == m.X

\* get_index_mappings_sample / convert_selected_global_index2rascal_sample:
\* a global sample index as (structure, centre), two centres to a structure
convert_selected_global_index2rascal_sample(ids) ==
    [p \in 1..Len(ids) |-> <<ids[p] \div 2, ids[p] % 2>>]

\* convert_selected_global_index2rascal_sample_per_species: KeyError when a
\* species of sps has no selection
convert_selected_global_index2rascal_sample_per_species(selected_ids_by_sp, sps) ==
    IF Range(sps) \subseteq DOMAIN selected_ids_by_sp
    THEN [err |-> "ok",
          ids |-> [sp \in Range(sps) |->
                      convert_selected_global_index2rascal_sample(selected_ids_by_sp[sp])]]
    ELSE [err |-> "KeyError", ids |-> << >>]

\* representation.get_feature_index_mapping(managers): per feature index its
\* named coefficient indices
get_feature_index_mapping(m) ==
    [j \in 0..(m.X.ncols - 1) |-> [a |-> j \div 2, b |-> j % 2]]

---------------------------------------------------------------------------
(* CURFilter *)

\* __init__
CURFilter(Nselect, act_on, is_deterministic, seed) ==
    [Nselect |-> Nselect, act_on |-> act_on,
     is_deterministic |-> is_deterministic, seed |-> seed,
     selected_ids |-> None,
     selected_sample_ids |-> None,
     selected_sample_ids_by_sp |-> None,
     selected_feature_ids_global |-> None,
     XX |-> None,
     fps_minmax_d2_by_sp |-> None,
     fps_hausforff_d2_by_sp |-> None]

\* the loop of fit over the species, from the one at position p on: cache is
\* selected_sample_ids_by_sp so far, g the generator, printed what was written
RECURSIVE FitSpecies(_, _, _, _, _, _, _)
FitSpecies(f, m, sps, p, cache, g, tie) ==
    IF p > Len(sps)
    THEN [err |-> "ok", cache |-> cache, rng |-> g, printed |-> {}]
    ELSE LET sp == sps[p]
             r == do_CUR(m.by_sp[sp], f.Nselect[sp], f.act_on,
                         f.is_deterministic, f.seed, g, tie)
         IN  IF r.err # "ok"
             THEN [err |-> r.err, cache |-> cache, rng |-> r.rng,
                   printed |-> {"species"} \cup r.printed]
             ELSE LET rest == FitSpecies(f, m, sps, p + 1,
                                         [s \in DOMAIN cache \cup {sp} |->
                                             IF s = sp THEN r.sel ELSE cache[s]],
                                         r.rng, tie)
                  IN  [rest EXCEPT !.printed = @ \cup {"species"} \cup r.printed]

\* fit(managers) on the filter f when the generator is g: the filter after
\* the call, the generator, what was printed, and the exception if any
fit(f, m, g, tie) ==
    LET XM == get_features(m)
    IN  IF f.act_on = "sample per species"
        THEN LET r == FitSpecies(f, m, keys(f.Nselect), 1, << >>, g, tie)
             IN  [err |-> r.err, rng |-> r.rng,
                  printed |-> {"nselect"} \cup r.printed,
                  flt |-> [f EXCEPT !.XX = Some(m.by_sp),
                                    !.selected_sample_ids_by_sp = Some(r.cache),
                                    !.fps_minmax_d2_by_sp = Some(<< >>),
                                    !.fps_hausforff_d2_by_sp = Some(<< >>)]]
        ELSE LET r == do_CUR(XM, f.Nselect, f.act_on, f.is_deterministic, f.seed, g, tie)
             IN  [err |-> r.err, rng |-> r.rng, printed |-> r.printed,
                  flt |-> IF r.err # "ok" THEN f
                          ELSE IF f.act_on = "sample"
                          THEN [f EXCEPT !.selected_sample_ids = Some(r.sel)]
                          ELSE [f EXCEPT !.selected_feature_ids_global = Some(r.sel)]]

SortThenTruncate(val, n) == Prefix(Sort(val), n)

\* np.sort(val[:n])
TruncateSorted(val, n) == Sort(Prefix(val, n))

FeatureIdsUnsorted(ids, sorting) == Prefix(ids, Len(sorting))

\* selected_feature_ids_global[selected_ids_sorting]
FeatureIds(ids, sorting) == [p \in 1..Len(sorting) |-> ids[sorting[p] + 1]]

\* the data attributes of a filter
DataOf(f) ==
    [selected_ids |-> f.selected_ids,
     selected_sample_ids |-> f.selected_sample_ids,
     selected_sample_ids_by_sp |-> f.selected_sample_ids_by_sp,
     selected_feature_ids_global |-> f.selected_feature_ids_global]

NoData ==
    [selected_ids |-> None, selected_sample_ids |-> None,
     selected_sample_ids_by_sp |-> None, selected_feature_ids_global |-> None]

\* transform(managers, n_select) on a filter with init parameters f and data
\* attributes d: the exception if any, the truncated sorted selection, the
\* value returned and selected_ids after the call
transform(f, d, m, n_select, tie) ==
    LET n == IF n_select = None THEN f.Nselect ELSE Val(n_select)
        failed(e) == [err |-> e, sorted |-> None, result |-> None,
                      selected_ids |-> d.selected_ids]
    IN  IF f.act_on = "sample per species"
        THEN IF d.selected_sample_ids_by_sp = None
             THEN failed("AttributeError")
             ELSE LET cached == Val(d.selected_sample_ids_by_sp)
                      by_sp == [sp \in DOMAIN cached |-> TruncateSorted(cached[sp], n[sp])]
                      c == convert_selected_global_index2rascal_sample_per_species(
                                by_sp, keys(n))
                  IN  IF c.err # "ok"
                      THEN failed(c.err)
                      ELSE [err |-> "ok", sorted |-> Some(by_sp),
                            result |-> Some([pseudo_points |-> c.ids]),
                            selected_ids |-> Some(c.ids)]
        ELSE IF f.act_on = "sample"
        THEN IF d.selected_sample_ids = None
             THEN failed("TypeError")
             ELSE LET global == TruncateSorted(Val(d.selected_sample_ids), n)
                      ids == convert_selected_global_index2rascal_sample(global)
                  IN  [err |-> "ok", sorted |-> Some(global), result |-> Some(ids),
                       selected_ids |-> Some(ids)]
        ELSE IF d.selected_feature_ids_global = None
             THEN failed("TypeError")
             ELSE LET feat_idx2coeff_idx == get_feature_index_mapping(m)
                      cached == Val(d.selected_feature_ids_global)
                      selected_ids_sorting == ArgSort(Prefix(cached, n), tie)
                      ids == FeatureIds(cached, selected_ids_sorting)
                  IN  [err |-> "ok", sorted |-> Some(ids),
                       result |-> Some(
                          [a |-> [p \in 1..Len(ids) |-> feat_idx2coeff_idx[ids[p]].a],
                           b |-> [p \in 1..Len(ids) |-> feat_idx2coeff_idx[ids[p]].b],
                           selected_features_global_ids |-> ids,
                           selected_features_global_ids_fps_ordering |->
                               selected_ids_sorting]),
                       selected_ids |-> Some(ids)]

\* _get_data
get_data(f) == DataOf(f)

set_data_without_samples(data) == [data EXCEPT !.selected_sample_ids = None]

\* _set_data: the data attributes of the filter after the call
set_data(data) ==
    [selected_ids |-> data.selected_ids,
     selected_sample_ids |-> data.selected_sample_ids,
     selected_sample_ids_by_sp |-> data.selected_sample_ids_by_sp,
     selected_feature_ids_global |-> data.selected_feature_ids_global]

---------------------------------------------------------------------------
(* The filter x and a filter restored from it *)

BudgetsFor(act_on) ==
    IF act_on = "sample per species"
    THEN [Species -> 1..MaxBudget]
    ELSE 1..MaxBudget

\* n_select of transform: left out, or a budget (the same for every species)
OverridesFor(act_on) ==
    {None} \cup
    (IF act_on = "sample per species"
     THEN {Some([sp \in Species |-> n]) : n \in 1..MaxBudget}
     ELSE {Some(n) : n \in 1..MaxBudget})

Init ==
    /\ sortTie \in TieOrders
    /\ rng = RandomSeed(0)
    /\ stdout = {}
    /\ caller = None /\ ref = None /\ again = None /\ thr = None
    /\ \E act_on \in Modes, det \in BOOLEAN :
        \E Nselect \in BudgetsFor(act_on), m \in ManagersFor(act_on) :
            /\ flt = CURFilter(Nselect, act_on, det, DefaultSeed)
            /\ managers = m
    /\ restored = NoData
    /\ synced = FALSE
    /\ out = None

Call(op, who, n, r) ==
    Some([op |-> op, who |-> who, n |-> n, err |-> r.err,
          sorted |-> r.sorted, result |-> r.result])

\* x.fit(managers)
Fit ==
    LET r == fit(flt, managers, rng, sortTie)
    IN  /\ flt' = r.flt
        /\ rng' = r.rng
        /\ stdout' = stdout \cup r.printed
        /\ synced' = FALSE
        /\ out' = Call("fit", "x", None, [err |-> r.err, sorted |-> None, result |-> None])
        /\ UNCHANGED <<sortTie, caller, managers, ref, again, restored, thr>>

\* x.transform(managers, n_select)
Transform(n_select) ==
    LET r == transform(flt, DataOf(flt), managers, n_select, sortTie)
    IN  /\ flt' = [flt EXCEPT !.selected_ids = r.selected_ids]
        /\ out' = Call("transform", "x", n_select, r)
        /\ UNCHANGED <<sortTie, rng, stdout, caller, managers, ref, again, restored,
                       synced, thr>>

\* y = CURFilter(**x._get_init_params()); y._set_data(x._get_data())
Restore ==
    /\ restored' = set_data(get_data(flt))
    /\ synced' = TRUE
    /\ UNCHANGED <<sortTie, rng, stdout, caller, managers, ref, again, flt, out, thr>>

\* y.transform(managers, n_select)
TransformRestored(n_select) ==
    LET r == transform(flt, restored, managers, n_select, sortTie)
    IN  /\ restored' = [restored EXCEPT !.selected_ids = r.selected_ids]
        /\ out' = Call("transform", "y", n_select, r)
        /\ UNCHANGED <<sortTie, rng, stdout, caller, managers, ref, again, flt,
                       synced, thr>>

Next ==
    \/ Fit
    \/ \E n_select \in OverridesFor(flt.act_on) : Transform(n_select)
    \/ Restore
    \/ \E n_select \in OverridesFor(flt.act_on) : TransformRestored(n_select)

Spec == Init /\ [][Next]_vars

---------------------------------------------------------------------------
(* do_CUR called concurrently: the per-species calls of a fit, or the calls
   of two filters, each a stochastic selection on its own slice *)

Threads == {1, 2}

ThreadInputs ==
    UNION {{[X |-> M, Nsel |-> k, seed |-> sd] :
                M \in SliceMatrices(nr), k \in 1..(Rank(nr, MaxCols)), sd \in Seeds} :
            nr \in 2..MaxRows}

InitConcurrent ==
    /\ sortTie \in TieOrders
    /\ rng = RandomSeed(0)
    /\ stdout = {}
    /\ caller = None /\ ref = None /\ again = None
    /\ managers = None /\ flt = None /\ restored = None /\ synced = FALSE /\ out = None
    /\ \E i \in [Threads -> ThreadInputs] :
        thr = [t \in Threads |->
                [pc |-> "start", X |-> i[t].X, Nsel |-> i[t].Nsel, seed |-> i[t].seed,
                 u |-> << >>, sel |-> << >>]]

OthersUnchanged ==
    UNCHANGED <<sortTie, caller, managers, ref, again, flt, restored, synced, out>>

\* np.random.seed(seed)
ThreadSeed(t) ==
    /\ thr[t].pc = "start"
    /\ rng' = RandomSeed(thr[t].seed)
    /\ thr' = [thr EXCEPT ![t].pc = "seeded"]
    /\ UNCHANGED stdout
    /\ OthersUnchanged

\* np.random.rand(*weights.shape)
ThreadRand(t) ==
    /\ thr[t].pc = "seeded"
    /\ thr' = [thr EXCEPT ![t].pc = "drawn",
                          ![t].u = RandomRand(rng, thr[t].X.nrows)]
    /\ rng' = Advance(rng, thr[t].X.nrows)
    /\ UNCHANGED stdout
    /\ OthersUnchanged

\* sel = np.argsort(... - weights)[:Nsel], the diagnostics, return sel
ThreadSort(t) ==
    /\ thr[t].pc = "drawn"
    /\ thr' = [thr EXCEPT ![t].pc = "done",
                          ![t].sel = SortDrawn(thr[t].u,
                                               Weights(thr[t].X, thr[t].Nsel,
                                                       "sample per species"),
                                               thr[t].Nsel, sortTie)]
    /\ stdout' = stdout \cup {"rmse"}
    /\ UNCHANGED rng
    /\ OthersUnchanged

NextConcurrent == \E t \in Threads : ThreadSeed(t) \/ ThreadRand(t) \/ ThreadSort(t)

SpecConcurrent == InitConcurrent /\ [][NextConcurrent]_vars

---------------------------------------------------------------------------
(* Properties of do_CUR, under SpecSelect *)

AxisLen(M, act_on) == IF IsSampleAxis(act_on) THEN M.nrows ELSE M.ncols

Distinct(sel) == \A p, q \in DOMAIN sel : p # q => sel[p] # sel[q]

\* the calls kept: ref and again, each with the arguments it was made with
KeptCalls ==
    (IF ref = None THEN {} ELSE {[args |-> Val(ref).args, err |-> Val(ref).err,
                                  sel |-> Val(ref).sel]})
    \cup
    (IF again = None THEN {} ELSE {[args |-> Val(ref).args, err |-> Val(again).err,
                                    sel |-> Val(again).sel]})

\* C1: with 1 <= budget < min(matrix dimensions), do_CUR returns exactly
\* budget indices, pairwise distinct, each a valid index of the chosen axis,
\* for either policy and any seed.
C1_SelectReturnsBudgetDistinctValid ==
    \A c \in KeptCalls :
        SvdsAccepts(caller.X, c.args.Nsel) =>
            /\ c.err = "ok"
            /\ Len(c.sel) = c.args.Nsel
            /\ Distinct(c.sel)
            /\ \A p \in DOMAIN c.sel :
                    0 <= c.sel[p] /\ c.sel[p] < AxisLen(caller.X, caller.act_on)

C1_Witness ==
    /\ ref # None
    /\ caller.act_on = "feature"
    /\ caller.X.nrows < caller.X.ncols
    /\ SvdsAccepts(caller.X, Val(ref).args.Nsel)
    /\ ~Val(ref).args.is_deterministic
    /\ Len(Val(ref).sel) = 1

\* C2 (as claimed): a stochastic do_CUR call leaves the process-wide generator
\* as it found it.
C2_SelectLeavesSharedGenerator ==
    [][(ref = None /\ ref' # None /\ ~Val(ref').args.is_deterministic
            /\ Val(ref').err = "ok") => rng' = rng]_vars

SelectedOf(c) == Range(c.sel)

WeightOf(c, i) == Weights(caller.X, c.args.Nsel, caller.act_on)[i + 1]

\* C7 (as claimed): deterministic selection is by weight descending, cut at
\* budget, and of two candidates of equal weight the smaller index comes first.
C7_StableTieBreaking ==
    \A c \in KeptCalls :
        (c.err = "ok" /\ c.args.is_deterministic) =>
            /\ \A p, q \in DOMAIN c.sel :
                    (p < q /\ WeightOf(c, c.sel[p]) = WeightOf(c, c.sel[q]))
                        => c.sel[p] < c.sel[q]
            /\ \A j \in 0..(AxisLen(caller.X, caller.act_on) - 1) : \A p \in DOMAIN c.sel :
                    (j \notin SelectedOf(c) /\ WeightOf(c, j) = WeightOf(c, c.sel[p]))
                        => c.sel[p] < j

\* C7 (amended): deterministic selection returns budget candidates in order
\* of non-increasing weight, none of them lighter than a candidate left out;
\* the order among candidates of equal weight is the sort's, not the index's.
C7_ByWeightDescending ==
    \A c \in KeptCalls :
        (c.err = "ok" /\ c.args.is_deterministic) =>
            /\ Len(c.sel) = c.args.Nsel
            /\ \A p, q \in DOMAIN c.sel :
                    p < q => WeightOf(c, c.sel[p]) >= WeightOf(c, c.sel[q])
            /\ \A j \in 0..(AxisLen(caller.X, caller.act_on) - 1) : \A p \in DOMAIN c.sel :
                    j \notin SelectedOf(c) => WeightOf(c, j) <= WeightOf(c, c.sel[p])

\* a deterministic call whose cut falls between two candidates of equal weight
C7_Witness ==
    /\ ref # None
    /\ Val(ref).err = "ok"
    /\ Val(ref).args.is_deterministic
    /\ \E j \in 0..(AxisLen(caller.X, caller.act_on) - 1) :
            /\ j \notin Range(Val(ref).sel)
            /\ WeightOf(Val(ref), j) = WeightOf(Val(ref), Val(ref).sel[Len(Val(ref).sel)])

\* C8: a do_CUR call made again with the same matrix, budget, axis, policy
\* and seed returns the same index sequence, whatever calls and draws were
\* made in between.
C8_SameArgumentsSameSelection ==
    again # None => (Val(again).err = Val(ref).err /\ Val(again).sel = Val(ref).sel)

\* a stochastic call repeated when the generator was not fresh from its seed
C8_Witness ==
    /\ again # None
    /\ Val(again).err = "ok"
    /\ ~Val(ref).args.is_deterministic
    /\ Val(ref).args.Nsel > 1
    /\ ~Val(again).fresh

---------------------------------------------------------------------------
(* Properties of CURFilter, under Spec *)

IsCall(o, op, who) == o # None /\ Val(o).op = op /\ Val(o).who = who

\* the selection cached by fit, of every mode
CachedSelection(f) ==
    <<f.selected_sample_ids, f.selected_sample_ids_by_sp, f.selected_feature_ids_global>>

\* C4 (as claimed): a fit call that fails leaves no selection of any species
\* of that call in the cache.
C4_FailedFitCachesNothing ==
    (IsCall(out, "fit", "x") /\ Val(out).err # "ok" /\ flt.selected_sample_ids_by_sp # None)
        => DOMAIN Val(flt.selected_sample_ids_by_sp) = {}

\* C9 (as claimed): fit sets no attribute besides the cached selection,
\* retains no slice of the feature matrix and writes nothing.
C9_FitOnlyCachesSelection ==
    /\ flt.XX = None
    /\ flt.fps_minmax_d2_by_sp = None
    /\ flt.fps_hausforff_d2_by_sp = None
    /\ stdout = {}

IsAscending(ids) == \A p, q \in DOMAIN ids : p < q => ids[p] < ids[q]

FirstOf(cached, n) == {cached[p] : p \in 1..n}

\* ids is the first n elements of cached, in ascending order
IsSortedPrefix(ids, cached, n) ==
    /\ Len(ids) = n
    /\ IsAscending(ids)
    /\ Range(ids) = FirstOf(cached, n)

\* the budget a transform call works with
BudgetOf(o) == IF Val(o).n = None THEN flt.Nselect ELSE Val(Val(o).n)

\* the groups of a selection, each with what transform selected in it: the
\* species, or the one group "all" of the other modes
Selected(o) ==
    IF flt.act_on = "sample per species"
    THEN [sp \in DOMAIN Val(Val(o).sorted) |-> Range(Val(Val(o).sorted)[sp])]
    ELSE [g \in {"all"} |-> Range(Val(Val(o).sorted))]

BudgetWithin(o, o2) ==
    IF flt.act_on = "sample per species"
    THEN \A sp \in Species : BudgetOf(o)[sp] <= BudgetOf(o2)[sp]
    ELSE BudgetOf(o) <= BudgetOf(o2)

TransformSelectsSortedPrefix ==
    (IsCall(out, "transform", "x") /\ Val(out).err = "ok") =>
        IF flt.act_on = "sample per species"
        THEN \A sp \in DOMAIN Val(flt.selected_sample_ids_by_sp) :
                BudgetOf(out)[sp] <= Len(Val(flt.selected_sample_ids_by_sp)[sp]) =>
                    IsSortedPrefix(Val(Val(out).sorted)[sp],
                                   Val(flt.selected_sample_ids_by_sp)[sp],
                                   BudgetOf(out)[sp])
        ELSE LET cached == IF flt.act_on = "sample"
                           THEN Val(flt.selected_sample_ids)
                           ELSE Val(flt.selected_feature_ids_global)
             IN  BudgetOf(out) <= Len(cached) =>
                    IsSortedPrefix(Val(Val(out).sorted), cached, BudgetOf(out))

TransformKeepsCache ==
    (out' # None /\ Val(out').op = "transform") => CachedSelection(flt') = CachedSelection(flt)

SmallerBudgetSelectsSubset ==
    (/\ IsCall(out, "transform", "x") /\ Val(out).err = "ok"
     /\ IsCall(out', "transform", "x") /\ Val(out').err = "ok"
     /\ BudgetWithin(out, out'))
        => \A g \in DOMAIN Selected(out) : Selected(out)[g] \subseteq Selected(out')[g]

\* C5: transform calls leave the selection cached by fit unchanged; a call
\* with budget n (n within the cached length) selects, per group, the first n
\* elements of the cached selection in ascending order; of two successive
\* calls the one with the smaller budget selects a subset of the other's.
C5_TransformTruncatesCachedSelection ==
    /\ []TransformSelectsSortedPrefix
    /\ [][TransformKeepsCache /\ SmallerBudgetSelectsSubset]_vars

\* a transform with a budget below the fit budget on an unsorted cached selection
C5_Witness ==
    /\ IsCall(out, "transform", "x") /\ Val(out).err = "ok"
    /\ flt.act_on = "sample per species"
    /\ \E sp \in Species :
        /\ BudgetOf(out)[sp] < flt.Nselect[sp]
        /\ ~IsAscending(Val(flt.selected_sample_ids_by_sp)[sp])
        /\ Val(Val(out).sorted)[sp] # << >>

\* C6: a filter given _set_data(x._get_data()) returns from transform what x
\* returns for the same collaborator input and budget, in each mode, without
\* having been fitted.
C6_RestoredTransformsAlike ==
    [][(/\ synced
        /\ IsCall(out, "transform", "x")
        /\ IsCall(out', "transform", "y")
        /\ Val(out').n = Val(out).n)
            => (Val(out').err = Val(out).err /\ Val(out').result = Val(out).result)]_vars

\* the restored filter has transformed a selection taken over from x
C6_Witness ==
    /\ synced
    /\ IsCall(out, "transform", "y") /\ Val(out).err = "ok"
    /\ Val(out).n # None
    /\ flt.selected_ids # None
    /\ restored.selected_ids # flt.selected_ids

IsPermutation(s, n) == Len(s) = n /\ Range(s) = 0..(n - 1)

\* C10: in feature mode transform with budget n returns as
\* selected_features_global_ids the first n cached feature indices in
\* ascending order, as selected_features_global_ids_fps_ordering a permutation
\* p of 0..n-1 with ids[i] = cached[p[i]], and per key a coefficient list of
\* length n whose i-th entry is the coefficient index of feature ids[i].
C10_FeatureTransformOutput ==
    (/\ IsCall(out, "transform", "x") /\ Val(out).err = "ok"
     /\ flt.act_on = "feature"
     /\ BudgetOf(out) <= Len(Val(flt.selected_feature_ids_global)))
        => LET res == Val(Val(out).result)
               cached == Val(flt.selected_feature_ids_global)
               n == BudgetOf(out)
               ids == res.selected_features_global_ids
               perm == res.selected_features_global_ids_fps_ordering
           IN  /\ IsSortedPrefix(ids, cached, n)
               /\ IsPermutation(perm, n)
               /\ \A i \in 1..n : ids[i] = cached[perm[i] + 1]
               /\ Len(res.a) = n /\ Len(res.b) = n
               /\ \A i \in 1..n :
                    /\ res.a[i] = get_feature_index_mapping(managers)[ids[i]].a
                    /\ res.b[i] = get_feature_index_mapping(managers)[ids[i]].b

\* a feature transform whose sorting permutation is not the identity
C10_Witness ==
    /\ IsCall(out, "transform", "x") /\ Val(out).err = "ok"
    /\ flt.act_on = "feature"
    /\ Len(Val(Val(out).sorted)) = 2
    /\ Val(Val(out).result).selected_features_global_ids_fps_ordering = <<1, 0>>

---------------------------------------------------------------------------
(* Properties of concurrent do_CUR calls, under SpecConcurrent *)

\* what a thread's call returns when it runs alone
AloneSelection(t) ==
    do_CUR(thr[t].X, thr[t].Nsel, "sample per species", FALSE, thr[t].seed,
           RandomSeed(0), sortTie).sel

\* C3 (as claimed): however the seeding and drawing steps of concurrent
\* stochastic calls interleave, each call returns the indices it returns
\* when run alone with the same matrix, budget and seed.
C3_ConcurrentCallsIndependent ==
    \A t \in Threads : thr[t].pc = "done" => thr[t].sel = AloneSelection(t)

=============================================================================
